---- MODULE Spec2Model ----
(***************************************************************************)
(* PDF_RAG: the upload handler and status handler of app/server.py, the    *)
(* files collection of db/collections/files.py and the queue worker        *)
(* process_file of app/queue/workers.py.                                   *)
(*                                                                         *)
(* Identifiers.  The store keys a record by an ObjectId; the HTTP layer,   *)
(* the queue and the file system carry its string form.  The two are kept  *)
(* apart: [t |-> "oid", v |-> n] is the ObjectId, [t |-> "str", v |-> n]   *)
(* the string str(ObjectId), and a string with v = 0 is a text that is not *)
(* the 24-hex form of any ObjectId.                                        *)
(*                                                                         *)
(* Atomicity.  Each handler or worker action is the code up to and         *)
(* including its next awaited store call; the blocking library calls in    *)
(* between (rasterize, save, encode, remote call) touch only per-job files *)
(* and the remote service.  A worker taking a task from the queue and the  *)
(* first store call of process_file form one action.                       *)
(*                                                                         *)
(* Environment.  The remote completion returns a text (never null); the    *)
(* store's own calls do not fail; a library call that fails raises.        *)
(***************************************************************************)
EXTENDS Integers, Sequences, FiniteSets, Bags, TLC

VARIABLES files, disk, images, queue, handlers, runs, apiCalls, lookup

vars == <<files, disk, images, queue, handlers, runs, apiCalls, lookup>>

(* ----------------------------- bounds ---------------------------------- *)
MaxUploads == 2
MaxPages == 2

FileNames == {"resume.pdf"}
UploadFiles == [filename : FileNames, pages : 0..MaxPages]

(* --------------------------- identifiers ------------------------------- *)
Oid(n) == [t |-> "oid", v |-> n]
StrOf(x) == [t |-> "str", v |-> x.v]
IsValidHex(s) == s.t = "str" /\ s.v >= 1
ObjectId(s) == [t |-> "oid", v |-> s.v]
Malformed == [t |-> "str", v |-> 0]
LookupIds == {Malformed} \cup {[t |-> "str", v |-> n] : n \in 1..(MaxUploads + 1)}

(* ------------------------------ store ---------------------------------- *)
FileSchema(name, status) == [name |-> name, status |-> status]

NewObjectId(coll) == Oid(Cardinality(DOMAIN coll) + 1)

InsertOne(coll, id, doc) ==
    [d \in DOMAIN coll \cup {id} |-> IF d = id THEN doc ELSE coll[d]]

SetFields(doc, set) ==
    [k \in DOMAIN doc \cup DOMAIN set |-> IF k \in DOMAIN set THEN set[k] ELSE doc[k]]

UpdateEvery(coll, filterId, set) ==
    [d \in DOMAIN coll |-> SetFields(coll[d], set)]

UpdateOne(coll, filterId, set) ==
    [d \in DOMAIN coll |-> IF d = filterId THEN SetFields(coll[d], set) ELSE coll[d]]

Null == <<>>

(* --------------------------- file system ------------------------------- *)
UploadPath(idstr, filename) == [dir |-> idstr, filename |-> filename]
ImageSavePath(idstr, i) == [dir |-> idstr, i |-> i]

WriteFile(fs, path, content) ==
    [p \in DOMAIN fs \cup {path} |-> IF p = path THEN content ELSE fs[p]]

ConvertFromPath(fs, path) ==
    [k \in 1..fs[path].pages |-> [src |-> path, page |-> k - 1]]

RECURSIVE SavePages(_, _, _, _)
SavePages(fs, idstr, pages, n) ==
    IF n = 0 THEN fs
    ELSE WriteFile(SavePages(fs, idstr, pages, n - 1),
                   ImageSavePath(idstr, n - 1), pages[n])

ImageList(idstr, n) == [k \in 1..n |-> ImageSavePath(idstr, k - 1)]

encode_image(fs, path) == [b64 |-> fs[path]]

(* --------------------------- remote model ------------------------------ *)
Prompt == "Based on the resume below, Roast this resume."
ChatRequest(from, imgs) == [from |-> from, text |-> Prompt, image_urls |-> imgs]
Completion(req) == <<"roast", req.image_urls>>

(* ------------------------------- Init ---------------------------------- *)
NoLookup == [req |-> Malformed, code |-> 0, returned |-> FALSE]

Init ==
    /\ files = <<>>
    /\ disk = <<>>
    /\ images = <<>>
    /\ queue = <<>>
    /\ handlers = <<>>
    /\ runs = EmptyBag
    /\ apiCalls = EmptyBag
    /\ lookup = NoLookup

(* --------------------------- upload_file ------------------------------- *)
UploadInsert(file) ==
    /\ Len(handlers) < MaxUploads
    /\ LET id == NewObjectId(files) IN
        /\ files' = InsertOne(files, id, FileSchema(file.filename, "saving"))
        /\ handlers' = Append(handlers,
               [pc |-> "inserted", file |-> file, inserted_id |-> id])
    /\ UNCHANGED <<disk, images, queue, runs, apiCalls, lookup>>

SaveOutcomes == {"ok", "error"}

(* save_to_disk either stores the bytes or raises, storing nothing. *)
save_to_disk(fs, path, content, outcome) ==
    IF outcome = "ok" THEN WriteFile(fs, path, content) ELSE fs

(* The enqueue statement follows the awaited save: an exception raised by *)
(* the save leaves the handler before it.                                 *)
EnqueueAlways(q, task, outcome) == Append(q, task)

EnqueueIfSaved(q, task, outcome) ==
    IF outcome = "ok" THEN Append(q, task) ELSE q

UploadSaveEnqueue(h, outcome) ==
    /\ h \in 1..Len(handlers)
    /\ handlers[h].pc = "inserted"
    /\ LET idstr == StrOf(handlers[h].inserted_id)
           file_path == UploadPath(idstr, handlers[h].file.filename) IN
        /\ disk' = save_to_disk(disk, file_path,
                                [pages |-> handlers[h].file.pages], outcome)
        /\ queue' = EnqueueIfSaved(queue, [id |-> idstr, file_path |-> file_path],
                                   outcome)
        /\ handlers' = [handlers EXCEPT
               ![h].pc = IF outcome = "ok" THEN "enqueued" ELSE "aborted"]
    /\ UNCHANGED <<files, images, runs, apiCalls, lookup>>

QueuedFilter(inserted_id) == StrOf(inserted_id)

UploadSetQueued(h) ==
    /\ h \in 1..Len(handlers)
    /\ handlers[h].pc = "enqueued"
    /\ files' = UpdateOne(files, QueuedFilter(handlers[h].inserted_id),
                          [status |-> "queued"])
    /\ handlers' = [handlers EXCEPT ![h].pc = "returned"]
    /\ UNCHANGED <<disk, images, queue, runs, apiCalls, lookup>>

(* -------------------------- get_file_by_id ----------------------------- *)
Returned(s) ==
    \E h \in 1..Len(handlers) :
        handlers[h].pc = "returned" /\ StrOf(handlers[h].inserted_id) = s

get_file_by_id(s) ==
    IF ~IsValidHex(s) THEN [code |-> 500]
    ELSE IF ObjectId(s) \notin DOMAIN files THEN [code |-> 500]
    ELSE LET db_file == files[ObjectId(s)] IN
         [code |-> 200,
          _id |-> StrOf(ObjectId(s)),
          name |-> db_file.name,
          status |-> db_file.status,
          result |-> IF "result" \in DOMAIN db_file THEN db_file.result ELSE Null]

Lookup(s) ==
    /\ lookup' = [req |-> s, returned |-> Returned(s)] @@ get_file_by_id(s)
    /\ UNCHANGED <<files, disk, images, queue, handlers, runs, apiCalls>>

(* ---------------------------- the worker ------------------------------- *)
(* runs is the bag of task executions the worker pool has started: a task  *)
(* leaves the queue when a worker takes it and is never put back.          *)
Step(r, r2) == runs' = (runs (-) SetToBag({r})) (+) SetToBag({r2})

(* process_file has no exception handler: a raising step ends the task and  *)
(* writes nothing to the store.                                            *)
OnExceptionMarkFailed(coll, id) == UpdateOne(coll, ObjectId(id), [status |-> "failed"])

OnException(coll, id) == coll

Fail(r, why) ==
    /\ Step(r, [r EXCEPT !.pc = "failed", !.err = why, !.images = <<>>])
    /\ files' = OnException(files, r.id)

WorkerFilterStr(id) == id

WorkerFilter(id) == ObjectId(id)

(* The queue hands its oldest task to a worker and forgets it. *)
TakeTask(q) == [task |-> Head(q), rest |-> Tail(q)]

StartProcessing ==
    /\ queue # <<>>
    /\ queue' = TakeTask(queue).rest
    /\ LET id == TakeTask(queue).task.id IN
        /\ files' = UpdateOne(files, WorkerFilter(id), [status |-> "processing"])
        /\ runs' = runs (+) SetToBag({[id |-> id,
                                       file_path |-> TakeTask(queue).task.file_path,
                                       pc |-> "processing", err |-> "none",
                                       images |-> <<>>]})
    /\ UNCHANGED <<disk, images, handlers, apiCalls, lookup>>

SetConverting(r) ==
    /\ r.pc = "processing"
    /\ files' = UpdateOne(files, WorkerFilter(r.id), [status |-> "Converting to images"])
    /\ Step(r, [r EXCEPT !.pc = "converting"])
    /\ UNCHANGED <<disk, images, queue, handlers, apiCalls, lookup>>

ConvertOutcomes(n) ==
    {[step |-> "ok", i |-> n], [step |-> "rasterize", i |-> 0]}
        \cup {[step |-> "save", i |-> i] : i \in 0..(n - 1)}

AllConvertOutcomes == UNION {ConvertOutcomes(n) : n \in 0..MaxPages}

ConvertAndSave(r, outcome) ==
    /\ r.pc = "converting"
    /\ IF r.file_path \notin DOMAIN disk \/ outcome.step = "rasterize"
       THEN /\ Fail(r, "rasterize")
            /\ UNCHANGED images
       ELSE LET pages == ConvertFromPath(disk, r.file_path) IN
            /\ outcome \in ConvertOutcomes(Len(pages))
            /\ images' = SavePages(images, r.id, pages, outcome.i)
            /\ IF outcome.step = "save"
               THEN Fail(r, "save")
               ELSE /\ files' = UpdateOne(files, WorkerFilter(r.id),
                                    [status |-> "Converting to images success"])
                    /\ Step(r, [r EXCEPT !.pc = "success",
                                         !.images = ImageList(r.id, Len(pages))])
    /\ UNCHANGED <<disk, queue, handlers, apiCalls, lookup>>

CallOutcomes == {"ok", "encode", "api"}

IndexError == [error |-> "IndexError"]

BuildRequestAll(id, image_base64) ==
    IF image_base64 = <<>> THEN IndexError ELSE ChatRequest(id, image_base64)

BuildRequestUnchecked(id, image_base64) == ChatRequest(id, image_base64)

BuildRequest(id, image_base64) ==
    IF image_base64 = <<>> THEN IndexError ELSE ChatRequest(id, <<image_base64[1]>>)

ProcessedStatusOnly(req) == [status |-> "Processed"]

ProcessedFields(req) == [status |-> "Processed", result |-> Completion(req)]

EncodeAndCall(r, outcome) ==
    /\ r.pc = "success"
    /\ LET image_base64 == [k \in 1..Len(r.images) |-> encode_image(images, r.images[k])]
       req == BuildRequest(r.id, image_base64) IN
        IF outcome = "encode" /\ r.images # <<>>
        THEN /\ Fail(r, "encode")
             /\ UNCHANGED apiCalls
        ELSE IF req = IndexError
        THEN /\ Fail(r, "index")
             /\ UNCHANGED apiCalls
        ELSE /\ apiCalls' = apiCalls (+) SetToBag({req})
             /\ IF outcome = "api"
                THEN Fail(r, "api")
                ELSE /\ files' = UpdateOne(files, WorkerFilter(r.id), ProcessedFields(req))
                     /\ Step(r, [r EXCEPT !.pc = "done", !.images = <<>>])
    /\ UNCHANGED <<disk, images, queue, handlers, lookup>>

(* ------------------------- specifications ------------------------------ *)
JobNext ==
    \/ \E file \in UploadFiles : UploadInsert(file)
    \/ \E h \in 1..MaxUploads, o \in SaveOutcomes : UploadSaveEnqueue(h, o)
    \/ \E h \in 1..MaxUploads : UploadSetQueued(h)
    \/ StartProcessing
    \/ \E r \in BagToSet(runs) : SetConverting(r)
    \/ \E r \in BagToSet(runs), o \in AllConvertOutcomes : ConvertAndSave(r, o)
    \/ \E r \in BagToSet(runs), o \in CallOutcomes : EncodeAndCall(r, o)

Next ==
    \/ JobNext
    \/ \E s \in LookupIds : Lookup(s)

Spec == Init /\ [][Next]_vars

JobSpec == Init /\ [][JobNext]_vars
(* The behaviours in which no step fails: the storage write, the         *)
(* rasterizer, the image saves, the encoding and the remote call all      *)
(* succeed.  Selecting the first image of an empty list still raises.     *)
ConvertAll == {[step |-> "ok", i |-> n] : n \in 0..MaxPages}

FaultFreeNext ==
    \/ \E file \in UploadFiles : UploadInsert(file)
    \/ \E h \in 1..MaxUploads : UploadSaveEnqueue(h, "ok")
    \/ \E h \in 1..MaxUploads : UploadSetQueued(h)
    \/ StartProcessing
    \/ \E r \in BagToSet(runs) : SetConverting(r)
    \/ \E r \in BagToSet(runs), o \in ConvertAll : ConvertAndSave(r, o)
    \/ \E r \in BagToSet(runs) : EncodeAndCall(r, "ok")

WorkerStep(j) ==
    \E r \in BagToSet(runs) :
        /\ r.id.v = j
        /\ \/ SetConverting(r)
           \/ \E o \in ConvertAll : ConvertAndSave(r, o)
           \/ EncodeAndCall(r, "ok")

(* The worker pool takes every queued task and runs each started task on. *)
FairSpec ==
    /\ Init /\ [][FaultFreeNext]_vars
    /\ WF_vars(StartProcessing)
    /\ \A j \in 1..MaxUploads : WF_vars(WorkerStep(j))

(* ------------------------ derived quantities --------------------------- *)
Stages == <<"saving", "queued", "processing", "Converting to images",
            "Converting to images success", "Processed">>

StageSet == {Stages[i] : i \in 1..Len(Stages)}

StageIndex(st) == CHOOSE i \in 1..Len(Stages) : Stages[i] = st

HasResult(doc) == "result" \in DOMAIN doc /\ doc.result # Null

RunsOf(idstr) == {r \in BagToSet(runs) : r.id = idstr}

RunCount(idstr) == BagCardinality([r \in RunsOf(idstr) |-> runs[r]])

QueuedCount(idstr) == Cardinality({k \in 1..Len(queue) : queue[k].id = idstr})

CallsFrom(idstr) ==
    BagCardinality([q \in {c \in BagToSet(apiCalls) : c.from = idstr} |-> apiCalls[q]])

PagesOf(r) == disk[r.file_path].pages

(* ------------------------------ claims --------------------------------- *)

(* C1: a status lookup of an identifier made after the upload that created *)
(* it has responded returns "queued" or a later stage, never "saving".     *)
C1_LookupAfterUploadNotSaving ==
    (lookup.code = 200 /\ lookup.returned) => lookup.status # "saving"

(* C2: a status lookup for a malformed identifier, or for one that matches *)
(* no stored record, yields a not-found outcome (404), never an unhandled  *)
(* fault or a normal payload.  Records are never deleted, so an identifier *)
(* unknown now was unknown when it was looked up.                          *)
C2_UnknownLookupIsNotFound ==
    (lookup.code # 0
        /\ (~IsValidHex(lookup.req) \/ ObjectId(lookup.req) \notin DOMAIN files))
    => lookup.code = 404

(* C3: for every job record the result is present and non-null exactly     *)
(* when the status is "Processed", and a status lookup of any identifier,  *)
(* made in any reachable state, observes the same.                         *)
C3_ResultIffProcessed ==
    /\ \A d \in DOMAIN files : HasResult(files[d]) <=> files[d].status = "Processed"
    /\ \A s \in LookupIds :
        LET resp == get_file_by_id(s) IN
        resp.code = 200 => ((resp.result # Null) <=> resp.status = "Processed")

C3_Witness ==
    \E s \in LookupIds :
        LET resp == get_file_by_id(s) IN
        resp.code = 200 /\ resp.status = "Processed" /\ resp.result # Null

(* C4: a task that got as far as the remote call, for a document of N >= 1 *)
(* pages, has made exactly one call, carrying exactly one image, the       *)
(* encoding of the image rendered from page 0, while N images were saved.  *)
C4_OneCallFirstPageOnly ==
    \A r \in BagToSet(runs) :
        /\ CallsFrom(r.id) <= 1
        /\ (r.pc = "done" \/ r.err = "api") =>
            /\ PagesOf(r) >= 1
            /\ CallsFrom(r.id) = 1
            /\ \A c \in BagToSet(apiCalls) : c.from = r.id =>
                c.image_urls = <<[b64 |-> [src |-> r.file_path, page |-> 0]]>>
            /\ \A i \in 0..(PagesOf(r) - 1) : ImageSavePath(r.id, i) \in DOMAIN images

C4_Witness ==
    \E r \in BagToSet(runs) : r.pc = "done" /\ PagesOf(r) >= 2 /\ CallsFrom(r.id) = 1

(* C5: uploads receive pairwise distinct identifiers, and a step taken by  *)
(* the upload handler or the worker for one job changes no other job's     *)
(* record and removes none.                                                *)
ActingIds ==
    {handlers[h].inserted_id : h \in {k \in 1..Len(handlers) : handlers'[k] # handlers[k]}}
        \cup {ObjectId(r.id) : r \in BagToSet(runs') \ BagToSet(runs)}

C5_DistinctIdsIndependentRecords ==
    [][/\ \A h1, h2 \in 1..Len(handlers') :
            h1 # h2 => handlers'[h1].inserted_id # handlers'[h2].inserted_id
       /\ \A d \in DOMAIN files :
            /\ d \in DOMAIN files'
            /\ files'[d] # files[d] => d \in ActingIds]_vars

C5_Witness ==
    \E d1, d2 \in DOMAIN files :
        /\ d1 # d2
        /\ files[d1].status = "Processed"
        /\ files[d2].status = "Converting to images"

(* C6: every change of a record's status goes from one stage of the fixed  *)
(* sequence to the next one, never backward and never skipping a stage.    *)
C6_StatusStepsToNextStage ==
    [][\A d \in DOMAIN files :
          files'[d].status # files[d].status =>
              /\ files'[d].status \in StageSet
              /\ StageIndex(files'[d].status) = StageIndex(files[d].status) + 1]_vars

(* C7: an upload whose storage write failed has no task on the queue and   *)
(* none started, and its record stays at "saving"; every task, queued or   *)
(* started, refers to a file that was written.                             *)
C7_SaveFailureAbortsBeforeEnqueue ==
    /\ \A h \in 1..Len(handlers) :
        handlers[h].pc = "aborted" =>
            /\ QueuedCount(StrOf(handlers[h].inserted_id)) = 0
            /\ RunCount(StrOf(handlers[h].inserted_id)) = 0
            /\ files[handlers[h].inserted_id].status = "saving"
    /\ \A k \in 1..Len(queue) : queue[k].file_path \in DOMAIN disk
    /\ \A r \in BagToSet(runs) : r.file_path \in DOMAIN disk

C7_Witness ==
    \E h1, h2 \in 1..Len(handlers) :
        handlers[h1].pc = "aborted" /\ handlers[h2].pc = "returned" /\ queue # <<>>

(* C8: once a worker step has failed for a job, the record holds the last  *)
(* status written before the failing step, holds no result, holds no       *)
(* failure status, and the task is neither queued again nor run again.     *)
LastStatusBefore(err) ==
    IF err \in {"rasterize", "save"} THEN "Converting to images"
    ELSE "Converting to images success"

C8_FailedJobStaysStuck ==
    \A r \in BagToSet(runs) :
        r.pc = "failed" =>
            /\ files[ObjectId(r.id)].status = LastStatusBefore(r.err)
            /\ ~HasResult(files[ObjectId(r.id)])
            /\ QueuedCount(r.id) = 0
            /\ RunCount(r.id) = 1

C8_Witness ==
    \E r1, r2 \in BagToSet(runs) :
        /\ r1.pc = "failed" /\ r1.err = "api"
        /\ r2.pc = "failed" /\ r2.err = "save"

(* C9: a successful upload puts exactly one task on the queue, the task is *)
(* run at most once, and when the worker is scheduled fairly and no step   *)
(* fails, from some point on every enqueued job with at least one page is  *)
(* "Processed"; a "Processed" record keeps its status and result.          *)
Enqueued(j) ==
    \E h \in 1..Len(handlers) :
        /\ handlers[h].inserted_id = Oid(j)
        /\ handlers[h].pc \in {"enqueued", "returned"}
        /\ handlers[h].file.pages >= 1

IsProcessed(j) == Oid(j) \in DOMAIN files /\ files[Oid(j)].status = "Processed"

C9_EveryJobProcessedOnce ==
    /\ [](\A h \in 1..Len(handlers) :
            handlers[h].pc \in {"enqueued", "returned"} =>
                QueuedCount(StrOf(handlers[h].inserted_id))
                    + RunCount(StrOf(handlers[h].inserted_id)) = 1)
    /\ <>[](\A j \in 1..MaxUploads : Enqueued(j) => IsProcessed(j))
    /\ [][\A d \in DOMAIN files :
            files[d].status = "Processed" => files'[d] = files[d]]_vars

C9_Witness ==
    \E h \in 1..Len(handlers) :
        /\ handlers[h].pc = "returned"
        /\ files[handlers[h].inserted_id].status = "Processed"
        /\ RunCount(StrOf(handlers[h].inserted_id)) = 1

(* C10: a task whose document rasterized to zero pages wrote "Converting   *)
(* to images success" and can only fail at selecting the first image: it   *)
(* makes no remote call, stores no result and never reaches "Processed".   *)
C10_ZeroPagesStuckAtSuccess ==
    \A r \in BagToSet(runs) :
        (PagesOf(r) = 0 /\ (r.pc \in {"success", "done"} \/ r.err \notin {"none", "rasterize"})) =>
            /\ r.pc \in {"success", "failed"}
            /\ r.pc = "failed" => r.err = "index"
            /\ files[ObjectId(r.id)].status = "Converting to images success"
            /\ ~HasResult(files[ObjectId(r.id)])
            /\ CallsFrom(r.id) = 0

C10_Witness ==
    \E r \in BagToSet(runs) : PagesOf(r) = 0 /\ r.pc = "failed" /\ r.err = "index"
====
